---- MODULE Spec2Model ----
(***************************************************************************)
(* Model of package encryption (src/encryption/encrypt.go) of              *)
(* spv-wallet-web-backend: deriveKey, Encrypt and Decrypt, with the        *)
(* library calls they make (encoding/hex, strings.Split, crypto/rand,      *)
(* pbkdf2, crypto/aes, crypto/cipher GCM).                                 *)
(* Hash, whose source is not part of src/, follows the description of the *)
(* digest function; GetPaymailsFromMetadata follows src/unnamed/part_003.  *)
(* The rates Service (src/domain/rates/rates_service.go) is modelled step   *)
(* by step for concurrent goroutines, SetupWalletRoutes                    *)
(* (src/unnamed/part_002) as the steps of the function it returns.         *)
(*                                                                         *)
(* Go strings and byte slices are sequences of byte values 0..255; an      *)
(* envelope is the sequence of the ASCII codes of its characters.          *)
(*                                                                         *)
(* The cryptographic primitives are idealised, never the identity:         *)
(*  - PBKDF2-HMAC-SHA256 is a function of the HMAC key block (the password *)
(*    zero-padded to the hash's block size, as crypto/hmac prepares it)    *)
(*    and of the salt, collision-free on the inputs of the model;          *)
(*  - AES-GCM encrypts byte by byte with a keystream that depends on key,  *)
(*    nonce and position, and appends a 16-byte tag that is collision-free *)
(*    in (key, nonce, ciphertext) on the inputs of the model.              *)
(***************************************************************************)
EXTENDS Integers, Sequences, FiniteSets, TLC

\* ------------------------------------------------------------------ bytes

RECURSIVE SumBytes(_)
SumBytes(s) == IF s = << >> THEN 0 ELSE Head(s) + SumBytes(Tail(s))

\* s cut or zero-padded on the right to exactly n bytes (copy into make([]byte, n))
PadTo(s, n) == [i \in 1..n |-> IF i <= Len(s) THEN s[i] ELSE 0]

\* ASCII codes of the characters the code names
Dash == 45

\* ------------------------------------------------------------ encoding/hex

\* hex.EncodeToString's table "0123456789abcdef"
HexTable == <<48, 49, 50, 51, 52, 53, 54, 55, 56, 57, 97, 98, 99, 100, 101, 102>>

\* A plausible slip: "%x"-style formatting that drops a byte's leading zero digit.
RECURSIVE EncodeToStringNoPad(_)
EncodeToStringNoPad(b) ==
    IF b = << >> THEN << >>
    ELSE (IF Head(b) \div 16 = 0 THEN << >> ELSE <<HexTable[(Head(b) \div 16) + 1]>>)
         \o <<HexTable[(Head(b) % 16) + 1]>> \o EncodeToStringNoPad(Tail(b))

\* hex.EncodeToString: two lowercase digits per byte, high nibble first
RECURSIVE EncodeToString(_)
EncodeToString(b) ==
    IF b = << >> THEN << >>
    ELSE <<HexTable[(Head(b) \div 16) + 1], HexTable[(Head(b) % 16) + 1]>>
         \o EncodeToString(Tail(b))

\* hex's fromHexChar: the digit's value, or -1 for a character that is no hex digit.
\* Both letter cases are accepted.
FromHexChar(c) ==
    IF c >= 48 /\ c <= 57 THEN c - 48
    ELSE IF c >= 97 /\ c <= 102 THEN c - 97 + 10
    ELSE IF c >= 65 /\ c <= 70 THEN c - 65 + 10
    ELSE -1

RECURSIVE DecodePairs(_)
DecodePairs(s) ==
    IF Len(s) < 2 THEN << >>
    ELSE <<16 * FromHexChar(s[1]) + FromHexChar(s[2])>> \o DecodePairs(Tail(Tail(s)))

\* hex.DecodeString: [err, bytes]; err for a character that is no hex digit
\* (InvalidByteError) or an odd number of characters (ErrLength).
DecodeString(s) ==
    IF (\E i \in 1..Len(s) : FromHexChar(s[i]) = -1) \/ Len(s) % 2 = 1
    THEN [err |-> TRUE, bytes |-> << >>]
    ELSE [err |-> FALSE, bytes |-> DecodePairs(s)]

\* ----------------------------------------------------------- strings.Split

\* strings.Split(s, sep) for a one-character separator: the substrings between
\* separators, always at least one (Split("", "-") is [""]).
RECURSIVE Split(_, _)
Split(s, sep) ==
    IF \A i \in 1..Len(s) : s[i] # sep THEN <<s>>
    ELSE LET k == CHOOSE i \in 1..Len(s) : s[i] = sep /\ \A j \in 1..(i - 1) : s[j] # sep
         IN  <<SubSeq(s, 1, k - 1)>> \o Split(SubSeq(s, k + 1, Len(s)), sep)

\* --------------------------------------------------------- pbkdf2, deriveKey

\* sha256.BlockSize: crypto/hmac zero-pads a shorter key to this many bytes
HmacBlockSize == 64

\* the iteration count and the key length deriveKey passes to pbkdf2.Key
Iterations == 1000
KeyLen == 32

\* hmac.New(sha256.New, password): the key block the PRF is keyed with. A password
\* of at most HmacBlockSize bytes is zero-padded on the right, so a password and the
\* same password followed by NUL bytes key the PRF alike. (Longer passwords are
\* hashed first; the model's passwords are shorter.)
HmacKeyBlock(password) == PadTo(password, HmacBlockSize)

\* pbkdf2.Key(password, salt, iter, keyLen, sha256.New): keyLen bytes that depend on
\* the HMAC key block, the salt and the iteration count and on nothing else;
\* collision-free for passwords and salts of at most 3 bytes.
Pbkdf2Key(password, salt, iter, keyLen) ==
    LET blk == HmacKeyBlock(password)
    IN  PadTo(<<blk[1], blk[2], blk[3], Len(salt)>> \o PadTo(salt, 3) \o <<iter % 256>>,
              keyLen)

\* A plausible slip: a 31-byte key, which is no AES key size.
DeriveKeyShort(passphrase, salt) ==
    <<Pbkdf2Key(passphrase, salt, Iterations, KeyLen - 1), salt>>

\* A plausible slip: a default salt made up for a caller that passes none.
DeriveKeyDefaultSalt(passphrase, salt) ==
    LET s == IF salt = << >> THEN <<1, 2>> ELSE salt
    IN  <<Pbkdf2Key(passphrase, s, Iterations, KeyLen), s>>

\* deriveKey: <<key, salt>>
deriveKey(passphrase, salt) ==
    <<Pbkdf2Key(passphrase, salt, Iterations, KeyLen), salt>>

\* ------------------------------------------------------ crypto/aes, AES-GCM

\* aes.NewCipher(key): KeySizeError unless the key has 16, 24 or 32 bytes
NewCipher(key) == [err |-> Len(key) \notin {16, 24, 32}, key |-> key]

\* cipher.NewGCM(b): an AES block has the 128-bit block size GCM requires
NewGCM(b) == [err |-> FALSE, key |-> b.key]

\* gcmStandardNonceSize and gcmTagSize of the AEAD NewGCM returns
GcmStandardNonceSize == 12
GcmTagSize == 16

\* the counter-mode keystream byte at position i
KeyStream(key, nonce, i) == (SumBytes(key) + SumBytes(nonce) + i) % 256

GcmCrypt(key, nonce, pt) ==
    [i \in 1..Len(pt) |-> (pt[i] + KeyStream(key, nonce, i)) % 256]

GcmUncrypt(key, nonce, ct) ==
    [i \in 1..Len(ct) |-> (ct[i] + 256 - KeyStream(key, nonce, i)) % 256]

\* the authentication tag over the ciphertext (no additional data): GcmTagSize bytes,
\* collision-free in (key, nonce, ciphertext) for ciphertexts of at most 3 bytes,
\* keys of Pbkdf2Key and nonces that differ in their first 5 bytes.
GcmTag(key, nonce, ct) ==
    PadTo(<<Len(ct)>> \o PadTo(ct, 3) \o PadTo(key, 7) \o PadTo(nonce, 5), GcmTagSize)

\* aesgcm.Seal(nil, nonce, plaintext, nil): [panic, data]; panics on a nonce of
\* another length than the AEAD's, else data is ciphertext followed by the tag.
Seal(aead, nonce, plaintext) ==
    IF Len(nonce) # GcmStandardNonceSize
    THEN [panic |-> TRUE, data |-> << >>]
    ELSE LET ct == GcmCrypt(aead.key, nonce, plaintext)
         IN  [panic |-> FALSE, data |-> ct \o GcmTag(aead.key, nonce, ct)]

\* A plausible slip: a mode without authentication, the tag cut off unverified.
OpenUnauthenticated(aead, nonce, data) ==
    IF Len(nonce) # GcmStandardNonceSize
    THEN [panic |-> TRUE, err |-> FALSE, data |-> << >>]
    ELSE IF Len(data) < GcmTagSize
    THEN [panic |-> FALSE, err |-> TRUE, data |-> << >>]
    ELSE [panic |-> FALSE, err |-> FALSE,
          data |-> GcmUncrypt(aead.key, nonce, SubSeq(data, 1, Len(data) - GcmTagSize))]

\* A plausible slip: no check that data holds a tag; slicing the tag off shorter
\* data panics (slice bounds out of range).
OpenNoLengthCheck(aead, nonce, data) ==
    IF Len(nonce) # GcmStandardNonceSize \/ Len(data) < GcmTagSize
    THEN [panic |-> TRUE, err |-> FALSE, data |-> << >>]
    ELSE LET ct  == SubSeq(data, 1, Len(data) - GcmTagSize)
             tag == SubSeq(data, Len(data) - GcmTagSize + 1, Len(data))
         IN  IF tag # GcmTag(aead.key, nonce, ct)
             THEN [panic |-> FALSE, err |-> TRUE, data |-> << >>]
             ELSE [panic |-> FALSE, err |-> FALSE, data |-> GcmUncrypt(aead.key, nonce, ct)]

\* aesgcm.Open(nil, nonce, data, nil): [panic, err, data]; panics on a nonce of
\* another length than the AEAD's; errOpen when data is shorter than the tag or the
\* tag does not verify; else the plaintext.
Open(aead, nonce, data) ==
    IF Len(nonce) # GcmStandardNonceSize
    THEN [panic |-> TRUE, err |-> FALSE, data |-> << >>]
    ELSE IF Len(data) < GcmTagSize
    THEN [panic |-> FALSE, err |-> TRUE, data |-> << >>]
    ELSE LET ct  == SubSeq(data, 1, Len(data) - GcmTagSize)
             tag == SubSeq(data, Len(data) - GcmTagSize + 1, Len(data))
         IN  IF tag # GcmTag(aead.key, nonce, ct)
             THEN [panic |-> FALSE, err |-> TRUE, data |-> << >>]
             ELSE [panic |-> FALSE, err |-> FALSE, data |-> GcmUncrypt(aead.key, nonce, ct)]

\* ----------------------------------------------------------------- Encrypt

\* the length of the iv Encrypt allocates: make([]byte, 12)
IvLen == 12

NoSeal == [called |-> FALSE, key |-> << >>, nonce |-> << >>]

\* A plausible slip: the components joined in the order iv, salt, data.
EncryptSwapped(passphrase, plaintext, rnd) ==
    LET dk     == deriveKey(passphrase, << >>)
        b      == NewCipher(dk[1])
        aesgcm == NewGCM(b)
        sealed == Seal(aesgcm, rnd.iv, plaintext)
    IN  IF rnd.err THEN [env |-> << >>, err |-> TRUE, panic |-> FALSE, at |-> 24, seal |-> NoSeal]
        ELSE [env   |-> EncodeToString(rnd.iv) \o <<Dash>> \o EncodeToString(dk[2])
                        \o <<Dash>> \o EncodeToString(sealed.data),
              err   |-> FALSE, panic |-> FALSE, at |-> 35,
              seal  |-> [called |-> TRUE, key |-> aesgcm.key, nonce |-> rnd.iv]]

\* A plausible slip: the error of rand.Read dropped, the iv used as it is.
EncryptIgnoresRandErr(passphrase, plaintext, rnd) ==
    LET dk     == deriveKey(passphrase, << >>)
        b      == NewCipher(dk[1])
        aesgcm == NewGCM(b)
        sealed == Seal(aesgcm, rnd.iv, plaintext)
    IN  [env   |-> EncodeToString(dk[2]) \o <<Dash>> \o EncodeToString(rnd.iv)
                   \o <<Dash>> \o EncodeToString(sealed.data),
         err   |-> FALSE, panic |-> sealed.panic, at |-> 35,
         seal  |-> [called |-> TRUE, key |-> aesgcm.key, nonce |-> rnd.iv]]

\* A plausible slip: a constant all-zero iv, rand.Read's bytes never used.
EncryptFixedIv(passphrase, plaintext, rnd) ==
    LET dk     == deriveKey(passphrase, << >>)
        iv     == PadTo(<< >>, IvLen)
        b      == NewCipher(dk[1])
        aesgcm == NewGCM(b)
        sealed == Seal(aesgcm, iv, plaintext)
    IN  IF rnd.err THEN [env |-> << >>, err |-> TRUE, panic |-> FALSE, at |-> 24, seal |-> NoSeal]
        ELSE [env   |-> EncodeToString(dk[2]) \o <<Dash>> \o EncodeToString(iv)
                        \o <<Dash>> \o EncodeToString(sealed.data),
              err   |-> FALSE, panic |-> FALSE, at |-> 35,
              seal  |-> [called |-> TRUE, key |-> aesgcm.key, nonce |-> iv]]

\* A plausible slip: a fresh salt per call (the iv) instead of none.
EncryptSalted(passphrase, plaintext, rnd) ==
    LET dk     == deriveKey(passphrase, SubSeq(rnd.iv, 1, 2))
        b      == NewCipher(dk[1])
        aesgcm == NewGCM(b)
        sealed == Seal(aesgcm, rnd.iv, plaintext)
    IN  IF rnd.err THEN [env |-> << >>, err |-> TRUE, panic |-> FALSE, at |-> 24, seal |-> NoSeal]
        ELSE [env   |-> EncodeToString(dk[2]) \o <<Dash>> \o EncodeToString(rnd.iv)
                        \o <<Dash>> \o EncodeToString(sealed.data),
              err   |-> FALSE, panic |-> FALSE, at |-> 35,
              seal  |-> [called |-> TRUE, key |-> aesgcm.key, nonce |-> rnd.iv]]

\* Encrypt(passphrase, plaintext), given what rand.Read(iv) did: rnd.err its error,
\* rnd.iv the 12 bytes of iv after the call. The result: env and err are the
\* returned (string, error); panic whether the call panicked; at the line of the
\* return statement taken; seal the key and nonce aesgcm.Seal was called with.
Encrypt(passphrase, plaintext, rnd) ==
    LET dk     == deriveKey(passphrase, << >>)
        key    == dk[1]
        salt   == dk[2]
        iv     == rnd.iv
        b      == NewCipher(key)
        aesgcm == NewGCM(b)
        sealed == Seal(aesgcm, iv, plaintext)
    IN  IF rnd.err
        THEN [env |-> << >>, err |-> TRUE, panic |-> FALSE, at |-> 24, seal |-> NoSeal]
        ELSE IF b.err
        THEN [env |-> << >>, err |-> TRUE, panic |-> FALSE, at |-> 28, seal |-> NoSeal]
        ELSE IF aesgcm.err
        THEN [env |-> << >>, err |-> TRUE, panic |-> FALSE, at |-> 32, seal |-> NoSeal]
        ELSE IF sealed.panic
        THEN [env |-> << >>, err |-> FALSE, panic |-> TRUE, at |-> 34,
              seal |-> [called |-> TRUE, key |-> aesgcm.key, nonce |-> iv]]
        ELSE [env   |-> EncodeToString(salt) \o <<Dash>> \o EncodeToString(iv)
                        \o <<Dash>> \o EncodeToString(sealed.data),
              err   |-> FALSE, panic |-> FALSE, at |-> 35,
              seal  |-> [called |-> TRUE, key |-> aesgcm.key, nonce |-> iv]]

\* ----------------------------------------------------------------- Decrypt

\* What a Decrypt call did before it returned: how many components it hex-decoded,
\* whether it derived a key, whether it called aesgcm.Open.
Did(decoded, derived, opened) ==
    [decoded |-> decoded, derived |-> derived, opened |-> opened]

\* A plausible slip: the check of the iv's length left out.
DecryptNoIvCheck(passphrase, ciphertext) ==
    LET arr == Split(ciphertext, Dash)
    IN  IF Len(arr) # 3 THEN [out |-> << >>, panic |-> FALSE, at |-> 43, did |-> Did(0, FALSE, FALSE)]
        ELSE
        LET salt   == DecodeString(arr[1])
            iv     == DecodeString(arr[2])
            data   == DecodeString(arr[3])
            aesgcm == NewGCM(NewCipher(deriveKey(passphrase, salt.bytes)[1]))
            opened == Open(aesgcm, iv.bytes, data.bytes)
        IN  IF salt.err \/ iv.err \/ data.err
            THEN [out |-> << >>, panic |-> FALSE, at |-> 47, did |-> Did(3, FALSE, FALSE)]
            ELSE IF opened.panic
            THEN [out |-> << >>, panic |-> TRUE, at |-> 70, did |-> Did(3, TRUE, TRUE)]
            ELSE IF opened.err
            THEN [out |-> << >>, panic |-> FALSE, at |-> 72, did |-> Did(3, TRUE, TRUE)]
            ELSE [out |-> opened.data, panic |-> FALSE, at |-> 74, did |-> Did(3, TRUE, TRUE)]

\* A plausible slip: only too few components are refused (len(arr) < 3).
DecryptSplitAtLeast(passphrase, ciphertext) ==
    LET arr == Split(ciphertext, Dash)
    IN  IF Len(arr) < 3 THEN [out |-> << >>, panic |-> FALSE, at |-> 43, did |-> Did(0, FALSE, FALSE)]
        ELSE
        LET salt   == DecodeString(arr[1])
            iv     == DecodeString(arr[2])
            data   == DecodeString(arr[3])
            aesgcm == NewGCM(NewCipher(deriveKey(passphrase, salt.bytes)[1]))
            opened == Open(aesgcm, iv.bytes, data.bytes)
        IN  IF salt.err THEN [out |-> << >>, panic |-> FALSE, at |-> 47, did |-> Did(1, FALSE, FALSE)]
            ELSE IF iv.err THEN [out |-> << >>, panic |-> FALSE, at |-> 51, did |-> Did(2, FALSE, FALSE)]
            ELSE IF Len(iv.bytes) # 12
            THEN [out |-> << >>, panic |-> FALSE, at |-> 55, did |-> Did(2, FALSE, FALSE)]
            ELSE IF data.err THEN [out |-> << >>, panic |-> FALSE, at |-> 59, did |-> Did(3, FALSE, FALSE)]
            ELSE IF opened.err
            THEN [out |-> << >>, panic |-> FALSE, at |-> 72, did |-> Did(3, TRUE, TRUE)]
            ELSE [out |-> opened.data, panic |-> FALSE, at |-> 74, did |-> Did(3, TRUE, TRUE)]

\* A plausible slip: the error of decoding the salt component dropped, the bytes
\* decoded before the bad character (here none) used as the salt.
DecryptSaltUnchecked(passphrase, ciphertext) ==
    LET arr == Split(ciphertext, Dash)
    IN  IF Len(arr) # 3 THEN [out |-> << >>, panic |-> FALSE, at |-> 43, did |-> Did(0, FALSE, FALSE)]
        ELSE
        LET salt   == DecodeString(arr[1])
            iv     == DecodeString(arr[2])
            data   == DecodeString(arr[3])
            aesgcm == NewGCM(NewCipher(deriveKey(passphrase, salt.bytes)[1]))
            opened == Open(aesgcm, iv.bytes, data.bytes)
        IN  IF iv.err THEN [out |-> << >>, panic |-> FALSE, at |-> 51, did |-> Did(2, FALSE, FALSE)]
            ELSE IF Len(iv.bytes) # 12
            THEN [out |-> << >>, panic |-> FALSE, at |-> 55, did |-> Did(2, FALSE, FALSE)]
            ELSE IF data.err THEN [out |-> << >>, panic |-> FALSE, at |-> 59, did |-> Did(3, FALSE, FALSE)]
            ELSE IF opened.err
            THEN [out |-> << >>, panic |-> FALSE, at |-> 72, did |-> Did(3, TRUE, TRUE)]
            ELSE [out |-> opened.data, panic |-> FALSE, at |-> 74, did |-> Did(3, TRUE, TRUE)]

\* A plausible slip: only a nonce longer than 12 bytes is refused (len(iv) > 12).
DecryptIvAtMost(passphrase, ciphertext) ==
    LET arr == Split(ciphertext, Dash)
    IN  IF Len(arr) # 3 THEN [out |-> << >>, panic |-> FALSE, at |-> 43, did |-> Did(0, FALSE, FALSE)]
        ELSE
        LET salt   == DecodeString(arr[1])
            iv     == DecodeString(arr[2])
            data   == DecodeString(arr[3])
            aesgcm == NewGCM(NewCipher(deriveKey(passphrase, salt.bytes)[1]))
            opened == Open(aesgcm, iv.bytes, data.bytes)
        IN  IF salt.err THEN [out |-> << >>, panic |-> FALSE, at |-> 47, did |-> Did(1, FALSE, FALSE)]
            ELSE IF iv.err THEN [out |-> << >>, panic |-> FALSE, at |-> 51, did |-> Did(2, FALSE, FALSE)]
            ELSE IF Len(iv.bytes) > 12
            THEN [out |-> << >>, panic |-> FALSE, at |-> 55, did |-> Did(2, FALSE, FALSE)]
            ELSE IF data.err THEN [out |-> << >>, panic |-> FALSE, at |-> 59, did |-> Did(3, FALSE, FALSE)]
            ELSE IF opened.panic
            THEN [out |-> << >>, panic |-> TRUE, at |-> 70, did |-> Did(3, TRUE, TRUE)]
            ELSE IF opened.err
            THEN [out |-> << >>, panic |-> FALSE, at |-> 72, did |-> Did(3, TRUE, TRUE)]
            ELSE [out |-> opened.data, panic |-> FALSE, at |-> 74, did |-> Did(3, TRUE, TRUE)]

\* A plausible slip: the key derived as Encrypt derives it, with no salt, whatever
\* the envelope's salt component.
DecryptKeyNoSalt(passphrase, ciphertext) ==
    LET arr == Split(ciphertext, Dash)
    IN  IF Len(arr) # 3 THEN [out |-> << >>, panic |-> FALSE, at |-> 43, did |-> Did(0, FALSE, FALSE)]
        ELSE
        LET salt   == DecodeString(arr[1])
            iv     == DecodeString(arr[2])
            data   == DecodeString(arr[3])
            aesgcm == NewGCM(NewCipher(deriveKey(passphrase, << >>)[1]))
            opened == Open(aesgcm, iv.bytes, data.bytes)
        IN  IF salt.err THEN [out |-> << >>, panic |-> FALSE, at |-> 47, did |-> Did(1, FALSE, FALSE)]
            ELSE IF iv.err THEN [out |-> << >>, panic |-> FALSE, at |-> 51, did |-> Did(2, FALSE, FALSE)]
            ELSE IF Len(iv.bytes) # 12
            THEN [out |-> << >>, panic |-> FALSE, at |-> 55, did |-> Did(2, FALSE, FALSE)]
            ELSE IF data.err THEN [out |-> << >>, panic |-> FALSE, at |-> 59, did |-> Did(3, FALSE, FALSE)]
            ELSE IF opened.err
            THEN [out |-> << >>, panic |-> FALSE, at |-> 72, did |-> Did(3, TRUE, TRUE)]
            ELSE [out |-> opened.data, panic |-> FALSE, at |-> 74, did |-> Did(3, TRUE, TRUE)]

\* Decrypt(passphrase, ciphertext): out the returned string; panic whether the call
\* panicked; at the line of the return statement taken (of the panicking call); did
\* what the call did before it returned.
Decrypt(passphrase, ciphertext) ==
    LET arr == Split(ciphertext, Dash)
    IN  IF Len(arr) # 3 THEN [out |-> << >>, panic |-> FALSE, at |-> 43, did |-> Did(0, FALSE, FALSE)]
        ELSE
        LET salt   == DecodeString(arr[1])
            iv     == DecodeString(arr[2])
            data   == DecodeString(arr[3])
            key    == deriveKey(passphrase, salt.bytes)[1]
            b      == NewCipher(key)
            aesgcm == NewGCM(b)
            opened == Open(aesgcm, iv.bytes, data.bytes)
        IN  IF salt.err THEN [out |-> << >>, panic |-> FALSE, at |-> 47, did |-> Did(1, FALSE, FALSE)]
            ELSE IF iv.err THEN [out |-> << >>, panic |-> FALSE, at |-> 51, did |-> Did(2, FALSE, FALSE)]
            ELSE IF Len(iv.bytes) # 12
            THEN [out |-> << >>, panic |-> FALSE, at |-> 55, did |-> Did(2, FALSE, FALSE)]
            ELSE IF data.err THEN [out |-> << >>, panic |-> FALSE, at |-> 59, did |-> Did(3, FALSE, FALSE)]
            ELSE IF b.err THEN [out |-> << >>, panic |-> FALSE, at |-> 64, did |-> Did(3, TRUE, FALSE)]
            ELSE IF aesgcm.err THEN [out |-> << >>, panic |-> FALSE, at |-> 68, did |-> Did(3, TRUE, FALSE)]
            ELSE IF opened.panic
            THEN [out |-> << >>, panic |-> TRUE, at |-> 70, did |-> Did(3, TRUE, TRUE)]
            ELSE IF opened.err
            THEN [out |-> << >>, panic |-> FALSE, at |-> 72, did |-> Did(3, TRUE, TRUE)]
            ELSE [out |-> opened.data, panic |-> FALSE, at |-> 74, did |-> Did(3, TRUE, TRUE)]

\* ------------------------------------------------------------ the inputs

\* Passphrases: empty, one byte, and that byte followed by a NUL byte
Passphrases == {<< >>, <<97>>, <<97, 0>>}

\* Plaintexts: empty, and a character followed by a control byte
Plaintexts == {<< >>, <<120, 10>>}

\* The 12 bytes rand.Read may deliver: a1 a2 .. ac, and 11 12 .. 1c
RandIvs == {[i \in 1..IvLen |-> 160 + i], [i \in 1..IvLen |-> 16 + i]}

\* What rand.Read(iv) may do: fill iv and return no error, or return an error
\* and leave the zeros make([]byte, 12) put there.
RandReads ==
    {[err |-> FALSE, iv |-> iv] : iv \in RandIvs}
        \cup {[err |-> TRUE, iv |-> PadTo(<< >>, IvLen)]}

\* Characters of arbitrary Decrypt inputs: the separator, a hex digit, no hex digit
RawChars == {Dash, 97, 103}

\* The longest arbitrary Decrypt input
MaxRawLen == 3

RECURSIVE StringsUpTo(_)
StringsUpTo(n) ==
    IF n = 0 THEN {<< >>}
    ELSE LET shorter == StringsUpTo(n - 1)
         IN  shorter \cup {Append(t, c) : t \in {u \in shorter : Len(u) = n - 1}, c \in RawChars}

RawInputs == StringsUpTo(MaxRawLen)

\* Characters one character of the ciphertext component is replaced by: the hex
\* digits 0 9 A F a f, the letter g, which is no hex digit, and the separator
TamperChars == {48, 57, 65, 70, 97, 102, 103, Dash}

\* Salts of envelopes sealed elsewhere under a salted key: one byte, and that byte
\* followed by a NUL byte
Salts == {<<7>>, <<7, 0>>}

\* ------------------------------------------------------------- the state

\* ------------------------------------------------------------------ Hash

\* The size of a SHA-256 digest, in bytes
Sha256Size == 32

\* The SHA-256 digest of data: Sha256Size bytes that depend on data and on nothing
\* else (no key, no salt); collision-free for data of at most 30 bytes.
Sha256Sum(data) ==
    PadTo(<<Len(data) % 256, SumBytes(data) % 256>> \o data, Sha256Size)

\* A plausible slip: "%x"-style formatting of the digest, byte by byte.
HashNoPad(input) ==
    [digest |-> EncodeToStringNoPad(Sha256Sum(input)), err |-> FALSE]

\* Hash(input): [digest, err]. The digest of the bytes of input, as lower-case
\* hexadecimal; writing to the hash engine and summing never fail.
Hash(input) ==
    [digest |-> EncodeToString(Sha256Sum(input)), err |-> FALSE]

\* Inputs of Hash: the arbitrary strings, "test", and binary data
HashInputs == RawInputs \cup {<<116, 101, 115, 116>>, <<0, 1, 2, 3>>}

\* ------------------------------------------- GetPaymailsFromMetadata

\* A value of type interface{} held by a metadata map: its dynamic type and,
\* for a string, the string. A key the map lacks reads as nil.
NilValue == [t |-> "nil", s |-> ""]
StringValue(str) == [t |-> "string", s |-> str]
NumberValue == [t |-> "float64", s |-> ""]

\* v.(string): panics unless the dynamic type is string
AssertString(v) ==
    [panic |-> v.t # "string", s |-> IF v.t = "string" THEN v.s ELSE ""]

\* GetPaymailsFromMetadata(transaction, fallbackPaymail): [panic, sender, receiver]
GetPaymailsFromMetadata(transaction, fallbackPaymail) ==
    IF transaction.isNil
    THEN [panic |-> FALSE, sender |-> "", receiver |-> ""]
    ELSE LET md  == transaction.Metadata
             snd == IF ~md.isNil /\ md.sender.t # "nil"
                    THEN AssertString(md.sender)
                    ELSE [panic |-> FALSE, s |-> ""]
             rcv == IF ~md.isNil /\ md.receiver.t # "nil"
                    THEN AssertString(md.receiver)
                    ELSE [panic |-> FALSE, s |-> ""]
             p2p == IF ~md.isNil /\ snd.s = "" /\ md.p2p.t # "nil"
                    THEN IF md.p2p.t # "map"
                         THEN [panic |-> TRUE, s |-> ""]
                         ELSE IF md.p2p.sender.t # "nil"
                              THEN AssertString(md.p2p.sender)
                              ELSE [panic |-> FALSE, s |-> snd.s]
                    ELSE [panic |-> FALSE, s |-> snd.s]
             senderPaymail   == p2p.s
             receiverPaymail == rcv.s
         IN  IF snd.panic \/ rcv.panic \/ p2p.panic
             THEN [panic |-> TRUE, sender |-> "", receiver |-> ""]
             ELSE IF transaction.TransactionDirection = "incoming" /\ receiverPaymail = ""
             THEN [panic |-> FALSE, sender |-> senderPaymail, receiver |-> fallbackPaymail]
             ELSE IF transaction.TransactionDirection = "outgoing" /\ senderPaymail = ""
             THEN [panic |-> FALSE, sender |-> fallbackPaymail, receiver |-> receiverPaymail]
             ELSE [panic |-> FALSE, sender |-> senderPaymail, receiver |-> receiverPaymail]

\* Inputs of GetPaymailsFromMetadata
MetadataValues == {NilValue, StringValue(""), StringValue("alice@x"), NumberValue}
P2PValues ==
    {[t |-> "nil", sender |-> NilValue], [t |-> "string", sender |-> NilValue]}
        \cup {[t |-> "map", sender |-> v] : v \in MetadataValues}
NilMetadata == [isNil |-> TRUE, sender |-> NilValue, receiver |-> NilValue,
                p2p |-> [t |-> "nil", sender |-> NilValue]]
Metadatas ==
    {NilMetadata}
        \cup [isNil : {FALSE}, sender : MetadataValues, receiver : MetadataValues,
              p2p : P2PValues]
Directions == {"incoming", "outgoing", "reconcile"}
NilTransaction == [isNil |-> TRUE, Metadata |-> NilMetadata, TransactionDirection |-> ""]
Transactions ==
    {NilTransaction}
        \cup [isNil : {FALSE}, Metadata : Metadatas, TransactionDirection : Directions]
FallbackPaymails == {"me@x", ""}

\* ---------------------------------------------------------- rates.Service

\* A *float64: nil, or a pointer to the rate v
NilRate == [isNil |-> TRUE, v |-> 0]
RatePtr(v) == [isNil |-> FALSE, v |-> v]

\* A time.Time: the zero value, or the instant t of the clock
ZeroTime == [zero |-> TRUE, t |-> 0]
TimeAt(t) == [zero |-> FALSE, t |-> t]

\* The cache lifetime viper.GetDuration(config.EnvCacheSettingsTTL) returns, and
\* the last instant of the clock
CacheTTL == 2
MaxTime == 3

\* sync.Mutex: held by goroutine g, or by none
Unlocked == 0

\* A plausible slip: no mutex, every goroutine goes through.
CanLockAlways(s) == TRUE

\* s.mutex.Lock() goes through when no goroutine holds the mutex
CanLock(s) == s.mutex = Unlocked

\* The fields of the Service the mutex guards
Cached(s) == [exchangeRate |-> s.exchangeRate, lastFetch |-> s.lastFetch]

\* A plausible slip: the comparison with the cache lifetime turned round.
UseCachedValueInverted(s, t) ==
    ~s.exchangeRate.isNil /\ ~s.lastFetch.zero /\ t - s.lastFetch.t > CacheTTL

\* useCachedValue at instant t: a rate is cached and less than the cache lifetime
\* has passed since lastFetch (time.Since of the zero time is the longest Duration)
UseCachedValue(s, t) ==
    ~s.exchangeRate.isNil /\ ~s.lastFetch.zero /\ t - s.lastFetch.t < CacheTTL

\* What fetchExchangeRate may do: return the rate of the response, return an
\* error (lines 78, 83, 90, 95), or panic at line 97 on the response body null,
\* which json.Unmarshal takes without error and leaves the pointer nil for
Rates == {1, 2}
FetchOutcomes ==
    {[kind |-> "ok", rate |-> r] : r \in Rates}
        \cup {[kind |-> "err", rate |-> 0], [kind |-> "panic", rate |-> 0]}

\* A plausible slip: s.exchangeRate assigned from the fetch before err is looked at.
AfterFetchClears(s, out, t) ==
    IF out.kind = "ok"
    THEN [s EXCEPT !.lastFetch = TimeAt(t), !.exchangeRate = RatePtr(out.rate)]
    ELSE [s EXCEPT !.exchangeRate = NilRate]
\* Lines 63-69 of loadExchangeRate after fetchExchangeRate returned out at
\* instant t: an error leaves the Service alone, a rate is cached
AfterFetch(s, out, t) ==
    IF out.kind = "ok"
    THEN [s EXCEPT !.lastFetch = TimeAt(t), !.exchangeRate = RatePtr(out.rate)]
    ELSE s

\* A plausible slip: Unlock called before the returns of lines 60 and 71 only.
UnlockNotDeferred(s, path) ==
    IF path \in {"err", "panic"} THEN s ELSE [s EXCEPT !.mutex = Unlocked]
\* The deferred s.mutex.Unlock() of loadExchangeRate, which runs however the
\* function is left: "hit" (line 60), "err" (line 65), "ok" (line 71), "panic"
Unlock(s, path) == [s EXCEPT !.mutex = Unlocked]

\* ------------------------------------------------------ SetupWalletRoutes

\* A registrar, by the interfaces of package routes its type implements
RegistrarKinds == SUBSET {"RootEndpoints", "APIEndpoints"}

\* The longest routes list
MaxRoutes == 3

\* The routes lists
RouteLists == UNION {[1..n -> RegistrarKinds] : n \in 0..MaxRoutes}

\* router.ToHandlers(auth.NewSessionMiddleware(..), auth.NewAuthMiddleware(..)):
\* the handlers of the middlewares, in the order of the arguments
ApiMiddlewares == <<"session", "auth">>

\* The paths of the groups engine.Group makes
RootPath == ""
ApiPath == "/api/v1"

\* A plausible slip: the cases of the type switch in the other order.
RouterForApiFirst(r) ==
    IF "APIEndpoints" \in r THEN ApiPath
    ELSE IF "RootEndpoints" \in r THEN RootPath
    ELSE "panic"

\* The type switch of lines 52-59: the group registrar r registers on, the first
\* case its type matches, or "panic"
RouterFor(r) ==
    IF "RootEndpoints" \in r THEN RootPath
    ELSE IF "APIEndpoints" \in r THEN ApiPath
    ELSE "panic"

\* What the setup function has done to the engine, in order
GroupMade(path, handlers) == [op |-> "group", path |-> path, handlers |-> handlers, r |-> 0]
Registered(r, path) == [op |-> "register", path |-> path, handlers |-> << >>, r |-> r]

NoSetup == [pc |-> "idle", routes |-> << >>, i |-> 0, events |-> << >>]

\* ----------------------------------------------------------- state

VARIABLES
    setup,          \* SetupWalletRoutes: the routes list, where the setup stands, what it did
    svc,            \* the rates Service: exchangeRate, lastFetch, and who holds its mutex
    built,          \* NewRatesService has returned the Service
    now,            \* the clock time.Now and time.Since read
    rcall,          \* per goroutine: where its call on the Service stands, and its locals
    proc,           \* per goroutine: where its call stands, the call's locals and result
    ivbuf,          \* the iv buffers of the Encrypt calls in flight, by buffer
    hashed,         \* the latest Hash call: its input and its result
    hashedBefore,   \* one of the Hash calls made before the latest
    pm,         \* the GetPaymailsFromMetadata call last made: arguments and result
    latest,     \* the latest Encrypt call: its arguments, rand.Read's outcome, its result
    earlier,    \* one of the Encrypt calls made before the latest
    dec         \* the Decrypt call whose result the caller holds: arguments and result

vars == <<latest, earlier, dec, pm, hashed, hashedBefore, proc, ivbuf, svc, built, now, rcall, setup>>

\* What the calls of package encryption leave alone
notEnc == <<pm, hashed, hashedBefore, proc, ivbuf, svc, built, now, rcall, setup>>

NoCall == [made |-> FALSE]

\* The goroutines that call into package encryption at the same time
Procs == {1, 2}

\* A goroutine that is in no call
Idle == [pc |-> "idle"]

\* The buffer make([]byte, 12) gives the Encrypt call of goroutine self: a fresh
\* one, which no other call holds
IvSlotShared(self) == 1
IvSlot(self) == self

\* Where Encrypt goes after rand.Read returned rnd, its draws-th draw: it returns
\* the error, or goes on to seal
AfterReadRetry(rnd, draws) ==
    IF rnd.err THEN (IF draws < 2 THEN "enc_read" ELSE "done") ELSE "enc_seal"
AfterRead(rnd, draws) == IF rnd.err THEN "done" ELSE "enc_seal"

\* What rand.Read has not yet delivered
NoRead == [err |-> FALSE, iv |-> << >>]
NoDec == [made |-> FALSE]

Init ==
    /\ latest = NoCall
    /\ earlier = NoCall
    /\ dec = NoDec
    /\ pm = NoCall
    /\ hashed = NoCall
    /\ hashedBefore = NoCall
    /\ proc = [self \in Procs |-> Idle]
    /\ ivbuf = [b \in Procs |-> PadTo(<< >>, IvLen)]
    /\ svc = [exchangeRate |-> NilRate, lastFetch |-> ZeroTime, mutex |-> Unlocked]
    /\ built = FALSE
    /\ now = 0
    /\ rcall = [self \in Procs |-> Idle]
    /\ setup = NoSetup

\* A caller encrypts plaintext m under passphrase p.
EncryptCall ==
    /\ ~dec.made
    /\ \E p \in Passphrases, m \in Plaintexts, rnd \in RandReads :
        latest' = [made |-> TRUE, p |-> p, m |-> m, rnd |-> rnd, res |-> Encrypt(p, m, rnd)]
    /\ earlier' \in {earlier, latest}
    /\ dec' = NoDec
    /\ UNCHANGED notEnc

\* The envelope the latest Encrypt call returned
Stored == latest.res.env

HasStored == latest.made /\ ~latest.res.err /\ ~latest.res.panic

\* A caller decrypts the stored envelope under some passphrase.
DecryptStored ==
    /\ ~dec.made
    /\ HasStored
    /\ \E p \in Passphrases :
        dec' = [made |-> TRUE, kind |-> "stored", p |-> p, input |-> Stored, pos |-> 0,
                res |-> Decrypt(p, Stored)]
    /\ UNCHANGED <<latest, earlier, notEnc>>

\* The offset of the ciphertext component in an envelope: after the second dash
CipherStart(env) ==
    LET arr == Split(env, Dash) IN Len(arr[1]) + Len(arr[2]) + 2

\* A caller decrypts, under the passphrase it was encrypted with, the stored envelope
\* with one character of its ciphertext component replaced by another character.
DecryptTampered ==
    /\ ~dec.made
    /\ HasStored
    /\ \E pos \in (CipherStart(Stored) + 1)..Len(Stored), c \in TamperChars :
        /\ c # Stored[pos]
        /\ LET input == [Stored EXCEPT ![pos] = c]
           IN  dec' = [made |-> TRUE, kind |-> "tampered", p |-> latest.p, input |-> input,
                       pos |-> pos,
                       res |-> Decrypt(latest.p, input)]
    /\ UNCHANGED <<latest, earlier, notEnc>>

\* The stored envelope with its nonce component replaced by the hex of iv
WithNonce(env, iv) ==
    LET arr == Split(env, Dash)
    IN  arr[1] \o <<Dash>> \o EncodeToString(iv) \o <<Dash>> \o arr[3]

\* A caller decrypts the stored envelope with a nonce of 0, 11 or 13 bytes.
DecryptResized ==
    /\ ~dec.made
    /\ HasStored
    /\ \E p \in Passphrases, iv \in {<< >>, SubSeq(latest.rnd.iv, 1, IvLen - 1), Append(latest.rnd.iv, 0)} :
        LET input == WithNonce(Stored, iv)
        IN  dec' = [made |-> TRUE, kind |-> "resized", p |-> p, input |-> input, pos |-> 0,
                    res |-> Decrypt(p, input)]
    /\ UNCHANGED <<latest, earlier, notEnc>>

\* The texts component i of the stored envelope is replaced by. Salt: the letter g,
\* one digit, the hex of one byte. Nonce: its first digit replaced by g, its last
\* digit dropped. Ciphertext: empty, the hex of its first 15 bytes (one byte less
\* than a tag), its last digit dropped.
ComponentEdits(i, text) ==
    IF i = 1 THEN {<<103>>, <<97>>, <<48, 49>>}
    ELSE IF i = 2 THEN {<<103>> \o SubSeq(text, 2, Len(text)), SubSeq(text, 1, Len(text) - 1)}
    ELSE {<< >>, SubSeq(text, 1, 2 * (GcmTagSize - 1)), SubSeq(text, 1, Len(text) - 1)}

\* A caller decrypts the stored envelope with one component replaced.
DecryptEdited ==
    /\ ~dec.made
    /\ HasStored
    /\ \E p \in Passphrases, i \in 1..3 :
        \E text \in ComponentEdits(i, Split(Stored, Dash)[i]) :
            LET arr   == [Split(Stored, Dash) EXCEPT ![i] = text]
                input == arr[1] \o <<Dash>> \o arr[2] \o <<Dash>> \o arr[3]
            IN  dec' = [made |-> TRUE, kind |-> "edited", p |-> p, input |-> input, pos |-> i,
                        res |-> Decrypt(p, input)]
    /\ UNCHANGED <<latest, earlier, notEnc>>

\* An envelope made elsewhere in the format of Encrypt: the plaintext sealed under
\* the key derived from the passphrase and the salt sealedSalt, with the hex of salt
\* as its salt component.
SaltedEnvelope(passphrase, sealedSalt, salt, iv, plaintext) ==
    LET aesgcm == NewGCM(NewCipher(deriveKey(passphrase, sealedSalt)[1]))
    IN  EncodeToString(salt) \o <<Dash>> \o EncodeToString(iv) \o <<Dash>>
            \o EncodeToString(Seal(aesgcm, iv, plaintext).data)

\* A caller decrypts an envelope that holds the latest plaintext sealed, with the
\* latest passphrase and nonce, under a salted key; its salt component is that salt
\* or another one.
DecryptSalted ==
    /\ ~dec.made
    /\ HasStored
    /\ \E p \in Passphrases, sealedSalt \in Salts, salt \in Salts \cup {<< >>} :
        LET input == SaltedEnvelope(latest.p, sealedSalt, salt, latest.rnd.iv, latest.m)
        IN  dec' = [made |-> TRUE, kind |-> "salted", p |-> p, input |-> input, pos |-> 0,
                    sealedSalt |-> sealedSalt, salt |-> salt,
                    res |-> Decrypt(p, input)]
    /\ UNCHANGED <<latest, earlier, notEnc>>

\* A caller decrypts an arbitrary string.
DecryptRaw ==
    /\ ~dec.made
    /\ \E p \in Passphrases, input \in RawInputs :
        dec' = [made |-> TRUE, kind |-> "raw", p |-> p, input |-> input, pos |-> 0,
                res |-> Decrypt(p, input)]
    /\ UNCHANGED <<latest, earlier, notEnc>>

\* The caller is done with the result of its Decrypt call.
DecryptReturn ==
    /\ dec.made
    /\ dec' = NoDec
    /\ UNCHANGED <<latest, earlier, notEnc>>

Next ==
    \/ EncryptCall
    \/ DecryptStored
    \/ DecryptTampered
    \/ DecryptResized
    \/ DecryptEdited
    \/ DecryptSalted
    \/ DecryptRaw
    \/ DecryptReturn

Spec == Init /\ [][Next]_vars

\* ------------------------------------------- GetPaymailsFromMetadata calls

\* What a call of GetPaymailsFromMetadata leaves alone
notPaymails == <<latest, earlier, dec, hashed, hashedBefore, proc, ivbuf, svc, built, now, rcall, setup>>

\* A caller asks for the paymails of a transaction.
GetPaymailsCall ==
    /\ \E transaction \in Transactions, fallbackPaymail \in FallbackPaymails :
        pm' = [made |-> TRUE, transaction |-> transaction, fallback |-> fallbackPaymail,
               res |-> GetPaymailsFromMetadata(transaction, fallbackPaymail)]
    /\ UNCHANGED notPaymails

NextPaymails == GetPaymailsCall

SpecPaymails == Init /\ [][NextPaymails]_vars

\* ------------------------------------------------------------ Hash calls

\* What a call of Hash leaves alone
notHash == <<latest, earlier, dec, pm, proc, ivbuf, svc, built, now, rcall, setup>>

\* A caller hashes input; it may keep the call it made before.
HashCall ==
    /\ \E input \in HashInputs :
        hashed' = [made |-> TRUE, input |-> input, res |-> Hash(input)]
    /\ hashedBefore' \in {hashedBefore, hashed}
    /\ UNCHANGED notHash

NextHash == HashCall

SpecHash == Init /\ [][NextHash]_vars

\* ------------------------------------------------------ concurrent calls

\* What the concurrent calls leave alone
notConc == <<latest, earlier, dec, pm, hashed, hashedBefore, svc, built, now, rcall, setup>>

\* Inputs of the concurrent calls
ConcPassphrases == {<< >>, <<97>>}
ConcEnvelopes ==
    {Encrypt(<<97>>, m, [err |-> FALSE, iv |-> [i \in 1..IvLen |-> 16 + i]]).env :
        m \in Plaintexts} \cup {<<97, Dash>>}
ConcHashInputs == {<< >>, <<0, 1, 2, 3>>}

\* Goroutine self enters Encrypt(passphrase, input): deriveKey, and a zeroed iv
\* buffer (lines 20-21).
CallEncrypt(self) ==
    /\ proc[self].pc = "idle"
    /\ \E p \in ConcPassphrases, m \in Plaintexts :
        proc' = [proc EXCEPT ![self] =
                    [pc |-> "enc_read", op |-> "Encrypt", p |-> p, m |-> m, rnd |-> NoRead,
                     draws |-> 0, wrote |-> {IvSlot(self)}, raced |-> FALSE, res |-> NoCall]]
    /\ ivbuf' = [ivbuf EXCEPT ![IvSlot(self)] = PadTo(<< >>, IvLen)]
    /\ UNCHANGED notConc

\* rand.Read(iv) (line 22) fills the buffer or fails; on failure Encrypt returns
\* (lines 23-25). A call of another goroutine that has drawn and not yet sealed
\* has been overtaken.
EncryptRead(self) ==
    /\ proc[self].pc = "enc_read"
    /\ \E rnd \in RandReads :
        LET c    == proc[self]
            next == AfterRead(rnd, c.draws + 1)
        IN  /\ ivbuf' = [ivbuf EXCEPT ![IvSlot(self)] = rnd.iv]
            /\ proc' = [q \in Procs |->
                          IF q = self
                          THEN [c EXCEPT !.pc = next, !.rnd = rnd, !.draws = c.draws + 1,
                                         !.res = IF next = "done"
                                                 THEN Encrypt(c.p, c.m, rnd) ELSE NoCall]
                          ELSE IF proc[q].pc = "enc_seal"
                               THEN [proc[q] EXCEPT !.raced = TRUE]
                               ELSE proc[q]]
    /\ UNCHANGED notConc

\* aes.NewCipher, cipher.NewGCM, aesgcm.Seal with the iv the buffer holds, and the
\* envelope (lines 26-35).
EncryptSeal(self) ==
    /\ proc[self].pc = "enc_seal"
    /\ LET c == proc[self]
       IN  proc' = [proc EXCEPT ![self] =
                       [c EXCEPT !.pc = "done",
                                 !.res = Encrypt(c.p, c.m,
                                                 [err |-> FALSE, iv |-> ivbuf[IvSlot(self)]])]]
    /\ UNCHANGED <<ivbuf, notConc>>

\* Goroutine self enters Decrypt(passphrase, ciphertext).
CallDecrypt(self) ==
    /\ proc[self].pc = "idle"
    /\ \E p \in ConcPassphrases, input \in ConcEnvelopes :
        proc' = [proc EXCEPT ![self] =
                    [pc |-> "dec_decode", op |-> "Decrypt", p |-> p, m |-> input, rnd |-> NoRead,
                     draws |-> 0, wrote |-> {}, raced |-> FALSE, res |-> NoCall]]
    /\ UNCHANGED <<ivbuf, notConc>>

\* Split, the hex decodes and the nonce check (lines 40-60): Decrypt returns ""
\* or goes on to derive the key.
DecryptDecode(self) ==
    /\ proc[self].pc = "dec_decode"
    /\ LET c   == proc[self]
           res == Decrypt(c.p, c.m)
       IN  proc' = [proc EXCEPT ![self] =
                       IF res.did.derived
                       THEN [c EXCEPT !.pc = "dec_open"]
                       ELSE [c EXCEPT !.pc = "done", !.res = res]]
    /\ UNCHANGED <<ivbuf, notConc>>

\* deriveKey, aes.NewCipher, cipher.NewGCM and aesgcm.Open (lines 61-74).
DecryptOpen(self) ==
    /\ proc[self].pc = "dec_open"
    /\ LET c == proc[self]
       IN  proc' = [proc EXCEPT ![self] = [c EXCEPT !.pc = "done", !.res = Decrypt(c.p, c.m)]]
    /\ UNCHANGED <<ivbuf, notConc>>

\* Goroutine self enters Hash(input).
CallHash(self) ==
    /\ proc[self].pc = "idle"
    /\ \E input \in ConcHashInputs :
        proc' = [proc EXCEPT ![self] =
                    [pc |-> "hash_sum", op |-> "Hash", p |-> << >>, m |-> input, rnd |-> NoRead,
                     draws |-> 0, wrote |-> {}, raced |-> FALSE, res |-> NoCall]]
    /\ UNCHANGED <<ivbuf, notConc>>

\* Hash computes and encodes the digest.
HashSum(self) ==
    /\ proc[self].pc = "hash_sum"
    /\ LET c == proc[self]
       IN  proc' = [proc EXCEPT ![self] = [c EXCEPT !.pc = "done", !.res = Hash(c.m)]]
    /\ UNCHANGED <<ivbuf, notConc>>

\* The call of goroutine self returns; nothing of it stays behind.
Return(self) ==
    /\ proc[self].pc = "done"
    /\ proc' = [proc EXCEPT ![self] = Idle]
    /\ UNCHANGED <<ivbuf, notConc>>

NextConc ==
    \E self \in Procs :
        \/ CallEncrypt(self)
        \/ EncryptRead(self)
        \/ EncryptSeal(self)
        \/ CallDecrypt(self)
        \/ DecryptDecode(self)
        \/ DecryptOpen(self)
        \/ CallHash(self)
        \/ HashSum(self)
        \/ Return(self)

SpecConc == Init /\ [][NextConc]_vars

\* ---------------------------------------------------- rates.Service calls

\* What the calls on the rates Service leave alone
notRates == <<latest, earlier, dec, pm, hashed, hashedBefore, proc, ivbuf, setup>>

\* The guarded fields of a Service none has fetched for
NoCache == [exchangeRate |-> NilRate, lastFetch |-> ZeroTime]

\* A goroutine entering loadExchangeRate from op: it waits for the mutex (line 56).
\* snap and left are the guarded fields when it locked and when it unlocked, at
\* the instant of its useCachedValue, hit its answer, fetches the fetches it began,
\* out how its fetch ended, visible the values its read of line 52 may observe.
EnterLoad(op) ==
    [pc |-> "lock", op |-> op, snap |-> NoCache, at |-> 0, hit |-> FALSE, fetches |-> 0,
     out |-> "none", left |-> NoCache, visible |-> {}, res |-> NoCall]

\* NewRatesService (lines 33-37): no goroutine has the Service before it returns.
CallNewRatesService(self) ==
    /\ ~built
    /\ \A q \in Procs : rcall[q].pc = "idle"
    /\ rcall' = [rcall EXCEPT ![self] = EnterLoad("New")]
    /\ UNCHANGED <<svc, built, now, notRates>>

\* GetExchangeRate (line 47) on the Service NewRatesService returned.
CallGetExchangeRate(self) ==
    /\ built
    /\ rcall[self].pc = "idle"
    /\ rcall' = [rcall EXCEPT ![self] = EnterLoad("Get")]
    /\ UNCHANGED <<svc, built, now, notRates>>

\* s.mutex.Lock() (line 56)
Lock(self) ==
    /\ rcall[self].pc = "lock"
    /\ CanLock(svc)
    /\ svc' = [svc EXCEPT !.mutex = self]
    /\ rcall' = [rcall EXCEPT ![self] = [@ EXCEPT !.pc = "check", !.snap = Cached(svc)]]
    /\ UNCHANGED <<built, now, notRates>>

\* useCachedValue (line 59): on a hit loadExchangeRate returns nil (line 60) and the
\* deferred Unlock runs; otherwise fetchExchangeRate begins (line 63).
Check(self) ==
    /\ rcall[self].pc = "check"
    /\ IF UseCachedValue(svc, now)
       THEN /\ svc' = Unlock(svc, "hit")
            /\ rcall' = [rcall EXCEPT ![self] =
                            [@ EXCEPT !.pc = "after_load", !.at = now, !.hit = TRUE,
                                      !.left = Cached(svc), !.visible = {svc.exchangeRate}]]
       ELSE /\ svc' = svc
            /\ rcall' = [rcall EXCEPT ![self] =
                            [@ EXCEPT !.pc = "fetch", !.at = now, !.fetches = @ + 1]]
    /\ UNCHANGED <<built, now, notRates>>

\* fetchExchangeRate ends (lines 63-71) and the deferred Unlock runs. A rate is
\* cached with time.Now(); the write of line 69 is one the unsynchronised read of
\* line 52 in another goroutine may observe.
FetchReturns(self) ==
    /\ rcall[self].pc = "fetch"
    /\ \E out \in FetchOutcomes :
        LET s1 == AfterFetch(svc, out, now)
        IN  /\ svc' = Unlock(s1, out.kind)
            /\ rcall' = [q \in Procs |->
                           IF q = self
                           THEN [rcall[q] EXCEPT
                                    !.pc = IF out.kind = "panic" THEN "panicked" ELSE "after_load",
                                    !.out = out.kind,
                                    !.left = Cached(s1),
                                    !.visible = {s1.exchangeRate}]
                           ELSE IF /\ rcall[q].pc = "after_load"
                                   /\ rcall[q].op = "Get"
                                   /\ rcall[q].out # "err"
                                   /\ out.kind = "ok"
                                THEN [rcall[q] EXCEPT !.visible = @ \cup {s1.exchangeRate}]
                                ELSE rcall[q]]
    /\ UNCHANGED <<built, now, notRates>>

\* GetExchangeRate returns (lines 48-52): nil and the error, or what its read of
\* s.exchangeRate observes, made without the mutex.
GetExchangeRateReturn(self) ==
    /\ rcall[self].pc = "after_load"
    /\ rcall[self].op = "Get"
    /\ IF rcall[self].out = "err"
       THEN rcall' = [rcall EXCEPT ![self] =
                         [@ EXCEPT !.pc = "done",
                                   !.res = [rate |-> NilRate, err |-> TRUE, read |-> FALSE,
                                            locked |-> FALSE]]]
       ELSE \E r \in rcall[self].visible :
               rcall' = [rcall EXCEPT ![self] =
                            [@ EXCEPT !.pc = "done",
                                      !.res = [rate |-> r, err |-> FALSE, read |-> TRUE,
                                               locked |-> svc.mutex = self]]]
    /\ UNCHANGED <<svc, built, now, notRates>>

\* NewRatesService returns the Service (lines 38-42), having logged an error.
NewRatesServiceReturn(self) ==
    /\ rcall[self].pc = "after_load"
    /\ rcall[self].op = "New"
    /\ built' = TRUE
    /\ rcall' = [rcall EXCEPT ![self] =
                    [@ EXCEPT !.pc = "done",
                              !.res = [rate |-> NilRate, err |-> FALSE, read |-> FALSE,
                                       locked |-> FALSE]]]
    /\ UNCHANGED <<svc, now, notRates>>

\* The caller goes on; a panic has been recovered from.
Finish(self) ==
    /\ rcall[self].pc \in {"done", "panicked"}
    /\ rcall' = [rcall EXCEPT ![self] = Idle]
    /\ UNCHANGED <<svc, built, now, notRates>>

\* Time passes.
Tick ==
    /\ now < MaxTime
    /\ now' = now + 1
    /\ UNCHANGED <<svc, built, rcall, notRates>>

NextRates ==
    \/ \E self \in Procs :
        \/ CallNewRatesService(self)
        \/ CallGetExchangeRate(self)
        \/ Lock(self)
        \/ Check(self)
        \/ FetchReturns(self)
        \/ GetExchangeRateReturn(self)
        \/ NewRatesServiceReturn(self)
        \/ Finish(self)
    \/ Tick

SpecRates == Init /\ [][NextRates]_vars

\* Every step of a call that can be taken is taken in the end: a fetch ends, and
\* a goroutine that waits for the mutex gets it when it is free again and again
\* (sync.Mutex hands it to a waiter that has waited long).
FairRates ==
    \A self \in Procs :
        /\ SF_vars(Lock(self))
        /\ WF_vars(Check(self))
        /\ WF_vars(FetchReturns(self))
        /\ WF_vars(GetExchangeRateReturn(self))
        /\ WF_vars(NewRatesServiceReturn(self))

SpecRatesFair == SpecRates /\ FairRates

\* ------------------------------------------------ SetupWalletRoutes steps

\* What the route setup leaves alone
notSetup ==
    <<latest, earlier, dec, pm, hashed, hashedBefore, proc, ivbuf, svc, built, now, rcall>>

\* SetupWalletRoutes builds the routes list and returns the setup function
\* (lines 28-43).
SetupWalletRoutes ==
    /\ setup.pc = "idle"
    /\ \E routes \in RouteLists :
        setup' = [pc |-> "made", routes |-> routes, i |-> 0, events |-> << >>]
    /\ UNCHANGED notSetup

\* The setup function runs on an engine: the middlewares and the two groups
\* (lines 44-50).
RunSetup ==
    /\ setup.pc = "made"
    /\ setup' = [setup EXCEPT !.pc = "loop", !.i = 1,
                              !.events = <<GroupMade(RootPath, << >>),
                                           GroupMade(ApiPath, ApiMiddlewares)>>]
    /\ UNCHANGED notSetup

\* One round of the loop over routes (lines 51-60)
RegisterNext ==
    /\ setup.pc = "loop"
    /\ setup.i <= Len(setup.routes)
    /\ LET on == RouterFor(setup.routes[setup.i])
       IN  IF on = "panic"
           THEN setup' = [setup EXCEPT !.pc = "panicked"]
           ELSE setup' = [setup EXCEPT !.i = @ + 1,
                                       !.events = Append(@, Registered(setup.i, on))]
    /\ UNCHANGED notSetup

\* The loop is over and the setup function returns (line 61).
SetupReturns ==
    /\ setup.pc = "loop"
    /\ setup.i > Len(setup.routes)
    /\ setup' = [setup EXCEPT !.pc = "done"]
    /\ UNCHANGED notSetup

\* Another server is set up.
SetupAgain ==
    /\ setup.pc \in {"done", "panicked"}
    /\ setup' = NoSetup
    /\ UNCHANGED notSetup

NextSetup ==
    \/ SetupWalletRoutes
    \/ RunSetup
    \/ RegisterNext
    \/ SetupReturns
    \/ SetupAgain

SpecSetup == Init /\ [][NextSetup]_vars

\* ----------------------------------------------------------- properties

\* The caller holds the result of decrypting the stored envelope as Encrypt returned it
DecryptedStored == dec.made /\ dec.kind = "stored"

\* C1: round trip. Whenever Encrypt(p, m) returned an envelope without error,
\* Decrypt(p, envelope) returns exactly m, for empty p and empty m too.
RoundTrip ==
    (DecryptedStored /\ dec.p = latest.p)
        => (~dec.res.panic /\ dec.res.out = latest.m)

RoundTripWitness ==
    /\ DecryptedStored
    /\ dec.p = latest.p
    /\ latest.p = << >>
    /\ latest.m # << >>
    /\ dec.res.out = latest.m

\* C2: wrong-key rejection. For non-empty m and p2 # p1, Decrypt(p2, Encrypt(p1, m))
\* is not m: the tag check fails and the result is the empty string.
WrongKeyRejected ==
    (DecryptedStored /\ dec.p # latest.p /\ latest.m # << >>)
        => (dec.res.out # latest.m /\ dec.res.out = << >>)

\* A malformed envelope: not exactly 3 components, a component that is no
\* hexadecimal string, or a nonce that is not 12 bytes.
Malformed(s) ==
    LET arr == Split(s, Dash)
    IN  \/ Len(arr) # 3
        \/ \E i \in 1..3 : DecodeString(arr[i]).err
        \/ Len(DecodeString(arr[2]).bytes) # 12

\* C3: Decrypt is total. No Decrypt call panics, whatever its input, and on every
\* malformed input (a component count other than 3, a character that is no hex
\* digit, an odd number of digits, a nonce of another length than 12 bytes) it
\* returns the empty string.
DecryptTotal ==
    dec.made => (/\ ~dec.res.panic
                 /\ Malformed(dec.input) => dec.res.out = << >>)

DecryptTotalWitness ==
    /\ dec.made
    /\ dec.kind = "resized"
    /\ Len(DecodeString(Split(dec.input, Dash)[2]).bytes) = 13
    /\ dec.res.at = 55
    /\ dec.res.out = << >>

\* C4 as stated: replacing any one hex character of the ciphertext component by a
\* different hex character makes Decrypt, under the right passphrase, return the
\* empty string.
TamperRejected ==
    (dec.made /\ dec.kind = "tampered" /\ FromHexChar(dec.input[dec.pos]) # -1)
        => dec.res.out = << >>

\* C4 as amended: replacing one hex character of the ciphertext component by a hex
\* character of a different digit value makes Decrypt, under the right passphrase,
\* return the empty string (the other letter case of the same digit decodes to the
\* same bytes and is no change of the ciphertext).
TamperedValueRejected ==
    (/\ dec.made
     /\ dec.kind = "tampered"
     /\ FromHexChar(dec.input[dec.pos]) # -1
     /\ FromHexChar(dec.input[dec.pos]) # FromHexChar(Stored[dec.pos]))
        => (~dec.res.panic /\ dec.res.out = << >>)

TamperedValueWitness ==
    /\ dec.made
    /\ dec.kind = "tampered"
    /\ latest.m # << >>
    /\ FromHexChar(dec.input[dec.pos]) # -1
    /\ FromHexChar(dec.input[dec.pos]) # FromHexChar(Stored[dec.pos])
    /\ dec.pos > Len(Stored) - 2 * GcmTagSize
    /\ dec.res.at = 72

\* C5: envelope shape. Every envelope Encrypt returns without error splits on '-'
\* into exactly 3 components, salt, nonce, ciphertext in this order, each a valid
\* hexadecimal string of even length, the second decoding to exactly 12 bytes.
EnvelopeShape ==
    HasStored =>
        LET arr == Split(Stored, Dash)
        IN  /\ Len(arr) = 3
            /\ \A i \in 1..3 : ~DecodeString(arr[i]).err /\ Len(arr[i]) % 2 = 0
            /\ Len(DecodeString(arr[2]).bytes) = 12
            /\ DecodeString(arr[2]).bytes = latest.res.seal.nonce
            /\ Len(DecodeString(arr[3]).bytes) = Len(latest.m) + GcmTagSize

EnvelopeShapeWitness ==
    /\ HasStored
    /\ latest.m # << >>
    /\ Len(Split(Stored, Dash)) = 3
    /\ Len(Split(Stored, Dash)[2]) = 24

\* Two Encrypt calls that both sealed, under the same passphrase
SealedTwice ==
    /\ earlier.made /\ earlier.res.seal.called
    /\ latest.made /\ latest.res.seal.called
    /\ earlier.p = latest.p

\* C6 as stated: over any sequence of Encrypt calls with the same passphrase, no two
\* calls use the same 12-byte nonce.
NonceNeverReused ==
    SealedTwice => earlier.res.seal.nonce # latest.res.seal.nonce

\* C6 as amended: every Encrypt call seals with exactly the 12 bytes rand.Read
\* delivered to that call without error, so two calls with the same passphrase use
\* the same nonce only if the randomness source delivered the same 12 bytes to both.
NonceIsTheDraw ==
    /\ \A c \in {earlier, latest} :
          (c.made /\ c.res.seal.called)
              => (~c.rnd.err /\ c.res.seal.nonce = c.rnd.iv /\ Len(c.res.seal.nonce) = 12)
    /\ (SealedTwice /\ earlier.res.seal.nonce = latest.res.seal.nonce)
          => earlier.rnd.iv = latest.rnd.iv

NonceIsTheDrawWitness ==
    /\ SealedTwice
    /\ earlier.rnd.iv # latest.rnd.iv
    /\ earlier.res.seal.nonce # latest.res.seal.nonce

\* C7: when rand.Read fails, Encrypt returns an error and the empty string, and
\* seals nothing: no substituted or partly filled nonce, no partial envelope.
RandFailurePropagates ==
    (latest.made /\ latest.rnd.err)
        => (/\ latest.res.err
            /\ latest.res.env = << >>
            /\ ~latest.res.seal.called
            /\ ~latest.res.panic)

RandFailureWitness ==
    /\ latest.made
    /\ latest.rnd.err
    /\ latest.res.err
    /\ latest.res.at = 24

\* C8: when rand.Read delivers its 12 bytes, Encrypt returns no error and a
\* non-empty envelope, for every passphrase and plaintext: the derived key always
\* has 32 bytes, so the cipher is always constructed.
EncryptFailsOnlyOnRand ==
    (latest.made /\ ~latest.rnd.err)
        => (/\ ~latest.res.err
            /\ ~latest.res.panic
            /\ latest.res.env # << >>
            /\ Len(latest.res.seal.key) = 32)

EncryptSucceedsWitness ==
    /\ latest.made
    /\ ~latest.rnd.err
    /\ latest.p = << >>
    /\ latest.m = << >>
    /\ ~latest.res.err
    /\ latest.res.at = 35

\* C9: every envelope Encrypt returns has an empty salt component: no hex
\* character before the first '-'.
SaltComponentEmpty ==
    HasStored => (Stored[1] = Dash /\ Split(Stored, Dash)[1] = << >>)

SaltComponentEmptyWitness ==
    /\ HasStored
    /\ latest.p # << >>
    /\ Stored[1] = Dash

\* C10: any two Encrypt calls with the same passphrase, whatever their plaintexts
\* and nonces, seal under the identical 32-byte key, the one derived from the
\* passphrase and the empty salt.
SamePassphraseSameKey ==
    SealedTwice =>
        /\ earlier.res.seal.key = latest.res.seal.key
        /\ Len(latest.res.seal.key) = 32
        /\ latest.res.seal.key = Pbkdf2Key(latest.p, << >>, Iterations, KeyLen)

SamePassphraseSameKeyWitness ==
    /\ SealedTwice
    /\ earlier.m # latest.m
    /\ earlier.rnd.iv # latest.rnd.iv
    /\ earlier.res.seal.key = latest.res.seal.key

\* The components of a Decrypt input, and the bytes of one that is hexadecimal
Components(s) == Split(s, Dash)
ComponentBytes(s, i) == DecodeString(Components(s)[i]).bytes

\* All three components of a three-component input are hexadecimal strings
AllHex(s) == \A i \in 1..3 : ~DecodeString(Components(s)[i]).err

\* C13: segment-count check. When splitting the input on '-' gives another
\* number of components than 3, Decrypt returns the empty string at once: it
\* decodes no component and derives no key.
SegmentCountChecked ==
    (dec.made /\ Len(Components(dec.input)) # 3)
        => (/\ dec.res.out = << >>
            /\ ~dec.res.panic
            /\ dec.res.at = 43
            /\ dec.res.did = Did(0, FALSE, FALSE))

SegmentCountWitness ==
    /\ dec.made
    /\ dec.kind = "tampered"
    /\ Len(Components(dec.input)) = 4
    /\ dec.res.did.decoded = 0
    /\ dec.res.out = << >>

\* C14: hex check. For an input of exactly 3 components, if any one of them is
\* no hexadecimal string (a character that is no hex digit, or an odd number of
\* characters), Decrypt returns the empty string, whatever the other two are; it
\* never opens such an envelope.
HexChecked ==
    (/\ dec.made
     /\ Len(Components(dec.input)) = 3
     /\ ~AllHex(dec.input))
        => (dec.res.out = << >> /\ ~dec.res.panic /\ ~dec.res.did.opened)

HexCheckedWitness ==
    /\ dec.made
    /\ dec.kind = "edited"
    /\ dec.p = latest.p
    /\ latest.m # << >>
    /\ Components(dec.input)[1] = <<103>>
    /\ Components(dec.input)[2] = Components(Stored)[2]
    /\ Components(dec.input)[3] = Components(Stored)[3]
    /\ dec.res.at = 47

\* C15: nonce-length check. For an input of 3 hexadecimal components whose nonce
\* decodes to another length than 12 bytes (0, 11 and 13 included), Decrypt returns
\* the empty string and does not call aesgcm.Open.
NonceLengthChecked ==
    (/\ dec.made
     /\ Len(Components(dec.input)) = 3
     /\ AllHex(dec.input)
     /\ Len(ComponentBytes(dec.input, 2)) # 12)
        => (/\ dec.res.out = << >>
            /\ ~dec.res.panic
            /\ ~dec.res.did.opened
            /\ dec.res.at = 55)

NonceLengthWitness ==
    /\ dec.made
    /\ dec.kind = "resized"
    /\ AllHex(dec.input)
    /\ Len(ComponentBytes(dec.input, 2)) = 11
    /\ Components(dec.input)[3] = Components(Stored)[3]
    /\ ~dec.res.did.opened
    /\ dec.res.out = << >>

\* An input Decrypt takes to aesgcm.Open: 3 hexadecimal components, a 12-byte nonce
WellFormed(s) ==
    /\ Len(Components(s)) = 3
    /\ AllHex(s)
    /\ Len(ComponentBytes(s, 2)) = 12

\* C16: structurally invalid ciphertext. For a well-formed input whose ciphertext
\* component is empty or shorter than the 16-byte tag, Decrypt returns the empty
\* string for every passphrase (aesgcm.Open fails, it does not panic).
ShortCiphertextRejected ==
    (/\ dec.made
     /\ WellFormed(dec.input)
     /\ Len(ComponentBytes(dec.input, 3)) < 16)
        => (dec.res.out = << >> /\ ~dec.res.panic /\ dec.res.at = 72)

ShortCiphertextWitness ==
    /\ dec.made
    /\ dec.kind = "edited"
    /\ dec.p = latest.p
    /\ WellFormed(dec.input)
    /\ Len(ComponentBytes(dec.input, 3)) = 15
    /\ dec.res.did.opened
    /\ dec.res.out = << >>

\* C17: Decrypt derives its key from the passphrase and the envelope's salt. An
\* envelope with a non-empty salt s whose ciphertext was sealed under the key of
\* (p, s) decrypts with p to its plaintext; the same nonce and ciphertext with
\* another salt component decrypt to the empty string.
KeyFromEnvelopeSalt ==
    (dec.made /\ dec.kind = "salted" /\ dec.p = latest.p)
        => (/\ ~dec.res.panic
            /\ dec.salt = dec.sealedSalt => dec.res.out = latest.m
            /\ dec.salt # dec.sealedSalt => dec.res.out = << >>)

KeyFromEnvelopeSaltWitness ==
    /\ dec.made
    /\ dec.kind = "salted"
    /\ dec.p = latest.p
    /\ dec.salt = dec.sealedSalt
    /\ ComponentBytes(dec.input, 1) = dec.salt
    /\ latest.m # << >>
    /\ dec.res.out = latest.m

\* The ciphertext component of a well-formed input carries the tag of its
\* ciphertext under the key derived from the passphrase and the input's salt
Authentic(passphrase, s) ==
    LET data == ComponentBytes(s, 3)
        key  == Pbkdf2Key(passphrase, ComponentBytes(s, 1), Iterations, KeyLen)
    IN  /\ Len(data) >= GcmTagSize
        /\ SubSeq(data, Len(data) - GcmTagSize + 1, Len(data))
               = GcmTag(key, ComponentBytes(s, 2), SubSeq(data, 1, Len(data) - GcmTagSize))

\* C20: soundness of Decrypt. Decrypt returns a non-empty string only for an input
\* of 3 hexadecimal components with a 12-byte nonce whose ciphertext authenticates
\* under the key derived from the passphrase and the input's salt; and an input
\* that authenticates with an empty plaintext returns the empty string, as every
\* failure does.
DecryptSound ==
    dec.made =>
        /\ dec.res.out # << >>
              => (WellFormed(dec.input) /\ Authentic(dec.p, dec.input) /\ dec.res.at = 74)
        /\ dec.res.at # 74 => dec.res.out = << >>
        /\ (/\ WellFormed(dec.input)
            /\ Authentic(dec.p, dec.input)
            /\ Len(ComponentBytes(dec.input, 3)) = GcmTagSize)
              => (dec.res.at = 74 /\ dec.res.out = << >>)

DecryptSoundWitness ==
    /\ dec.made
    /\ dec.kind = "stored"
    /\ latest.m = << >>
    /\ dec.res.at = 74
    /\ dec.res.out = << >>

\* The paymail metadata holds for the sender: a non-empty string under "sender",
\* or else under "sender" of "p2p_tx_metadata"
SenderFound(transaction) ==
    LET md == transaction.Metadata
    IN  /\ ~md.isNil
        /\ \/ md.sender.t = "string" /\ md.sender.s # ""
           \/ md.p2p.t = "map" /\ md.p2p.sender.t = "string" /\ md.p2p.sender.s # ""

\* The paymail metadata holds for the receiver
ReceiverFound(transaction) ==
    LET md == transaction.Metadata
    IN  ~md.isNil /\ md.receiver.t = "string" /\ md.receiver.s # ""

\* C19: GetPaymailsFromMetadata fallback. For a nil transaction both results
\* are empty; for every other transaction the call returns, and a sender or a
\* receiver paymail that the metadata does not hold is the fallback paymail.
PaymailFallback ==
    pm.made =>
        IF pm.transaction.isNil
        THEN ~pm.res.panic /\ pm.res.sender = "" /\ pm.res.receiver = ""
        ELSE /\ ~pm.res.panic
             /\ ~SenderFound(pm.transaction) => pm.res.sender = pm.fallback
             /\ ~ReceiverFound(pm.transaction) => pm.res.receiver = pm.fallback

\* The characters 0-9 and a-f
LowerHexChars == (48..57) \cup (97..102)

RunAlone(c) ==
    IF c.op = "Encrypt" THEN Encrypt(c.p, c.m, c.rnd)
    ELSE IF c.op = "Decrypt" THEN Decrypt(c.p, c.m)
    ELSE Hash(c.m)

\* C12: concurrency independence. Under every interleaving of the steps of
\* concurrent Encrypt, Decrypt and Hash calls, a finished call holds the result
\* it returns when run alone with the same inputs (for Encrypt, the same drawn
\* nonce).
ConcurrentAsAlone ==
    \A self \in Procs :
        proc[self].pc = "done" => proc[self].res = RunAlone(proc[self])

ConcurrentWitness ==
    \E self \in Procs :
        /\ proc[self].pc = "done"
        /\ proc[self].op = "Encrypt"
        /\ proc[self].raced
        /\ ~proc[self].res.err
        /\ \E other \in Procs \ {self} :
            /\ proc[other].pc = "enc_seal"
            /\ proc[other].rnd.iv # proc[self].rnd.iv

\* C18: Encrypt has no side effects and does not retry. A finished Encrypt call
\* has drawn randomness exactly once and has written nothing but its own iv
\* buffer; when the draw failed it has returned the error at once, having sealed
\* nothing.
EncryptDrawsOnce ==
    \A self \in Procs :
        (proc[self].pc # "idle" /\ proc[self].op = "Encrypt")
            => /\ proc[self].draws <= 1
               /\ proc[self].wrote \subseteq {self}
               /\ proc[self].pc = "done"
                     => /\ proc[self].draws = 1
                        /\ proc[self].rnd.err
                              => /\ proc[self].res.err
                                 /\ proc[self].res.env = << >>
                                 /\ proc[self].res.at = 24
                                 /\ proc[self].res.seal = NoSeal

EncryptDrawsOnceWitness ==
    \E self \in Procs :
        /\ proc[self].pc = "done"
        /\ proc[self].op = "Encrypt"
        /\ proc[self].rnd.err
        /\ proc[self].draws = 1
        /\ proc[self].res.err

\* The goroutines inside the part of loadExchangeRate the mutex guards
InLoad(self) == rcall[self].pc \in {"check", "fetch"}

\* C21: rates cache, single fetch in flight. Under every interleaving at most
\* one fetchExchangeRate is in progress, and from the cache check through the
\* fetch to the update the goroutine holds the mutex and no other goroutine
\* changes exchangeRate or lastFetch.
SingleFetch ==
    /\ Cardinality({self \in Procs : rcall[self].pc = "fetch"}) <= 1
    /\ Cardinality({self \in Procs : InLoad(self)}) <= 1
    /\ \A self \in Procs :
        InLoad(self) => (svc.mutex = self /\ Cached(svc) = rcall[self].snap)

SingleFetchWitness ==
    \E self \in Procs, other \in Procs :
        /\ rcall[self].pc = "fetch"
        /\ rcall[self].op = "Get"
        /\ now > rcall[self].at
        /\ rcall[other].pc = "lock"

\* C22: rates cache, reads under the mutex. Every read of exchangeRate is made
\* while holding the mutex, and the rate GetExchangeRate returns is the one that
\* was cached when its own loadExchangeRate finished.
ReadUnderMutex ==
    \A self \in Procs :
        (rcall[self].pc = "done" /\ rcall[self].op = "Get" /\ rcall[self].res.read)
            => /\ rcall[self].res.locked
               /\ rcall[self].res.rate = rcall[self].left.exchangeRate

\* C23: rates cache hit. A call that finds a rate cached less than the cache
\* lifetime ago performs no fetch, leaves exchangeRate and lastFetch as they were
\* and GetExchangeRate returns a cached rate (the one it found, or one cached
\* since) with a nil error; a call fetches only when no rate is cached or the
\* lifetime has passed, and then once.
CacheHit ==
    \A self \in Procs :
        LET c       == rcall[self]
            expired == c.snap.lastFetch.zero \/ c.at - c.snap.lastFetch.t >= CacheTTL
        IN  c.pc \in {"fetch", "after_load", "done", "panicked"} =>
                /\ c.hit <=> (~c.snap.exchangeRate.isNil /\ ~expired)
                /\ c.hit <=> c.fetches = 0
                /\ c.fetches <= 1
                /\ (c.hit /\ c.pc # "fetch") => c.left = c.snap
                /\ (c.hit /\ c.pc = "done" /\ c.op = "Get")
                      => /\ ~c.res.err
                         /\ ~c.res.rate.isNil
                         /\ c.res.rate \in c.visible
                         /\ c.snap.exchangeRate \in c.visible

CacheHitWitness ==
    \E self \in Procs :
        /\ rcall[self].pc = "done"
        /\ rcall[self].op = "Get"
        /\ rcall[self].hit
        /\ rcall[self].at > rcall[self].snap.lastFetch.t
        /\ rcall[self].res.rate = rcall[self].snap.exchangeRate

\* C24: rates fetch failure. When fetchExchangeRate returns an error,
\* exchangeRate and lastFetch stay as they were and GetExchangeRate returns nil
\* and the error, an expired cached rate notwithstanding; NewRatesService returns
\* the Service all the same, and a call that finds no rate cached fetches.
FetchFailure ==
    \A self \in Procs :
        LET c == rcall[self]
        IN  /\ (c.pc \in {"after_load", "done"} /\ c.out = "err")
                  => /\ c.left = c.snap
                     /\ (c.pc = "done" /\ c.op = "Get")
                           => (c.res.err /\ c.res.rate = NilRate)
                     /\ (c.pc = "done" /\ c.op = "New") => built
            /\ (c.pc \in {"fetch", "after_load", "done", "panicked"} /\ c.snap.exchangeRate.isNil)
                  => c.fetches = 1

FetchFailureWitness ==
    \E self \in Procs :
        /\ rcall[self].pc = "done"
        /\ rcall[self].op = "Get"
        /\ rcall[self].out = "err"
        /\ ~rcall[self].snap.exchangeRate.isNil
        /\ svc.exchangeRate = rcall[self].snap.exchangeRate
        /\ rcall[self].res.err

\* A goroutine outside the guarded part of loadExchangeRate does not hold the mutex
MutexReleased ==
    \A self \in Procs : ~InLoad(self) => svc.mutex # self

\* C25: rates mutex release. loadExchangeRate releases the mutex on every path
\* (cache hit, fetch error, fetch success, and a panic of the fetch), so, every
\* fetch ending, a goroutine that waits for the mutex gets it and every call ends:
\* it returns, or its fetch has panicked.
RatesLive ==
    /\ []MutexReleased
    /\ \A self \in Procs :
        /\ (rcall[self].pc = "lock") ~> (rcall[self].pc = "check")
        /\ (rcall[self].pc # "idle") ~> (rcall[self].pc \in {"done", "panicked"})

RatesLiveWitness ==
    \E self \in Procs, other \in Procs :
        /\ rcall[self].pc = "after_load"
        /\ rcall[self].out = "err"
        /\ svc.mutex = Unlocked
        /\ rcall[other].pc = "lock"

\* The registrations the setup function has made
Registrations == SubSeq(setup.events, 3, Len(setup.events))

\* C26: route registration. The setup function first makes the root group and
\* the /api/v1 group, the latter with the session middleware followed by the
\* auth middleware; it then registers the registrars of the routes list in
\* order, each once and on one group (a RootEndpoints on the root group,
\* otherwise an APIEndpoints on /api/v1); it returns when every registrar is
\* registered, and panics at the first registrar that is neither.
RoutesRegistered ==
    setup.pc \in {"loop", "done", "panicked"} =>
        /\ setup.events[1] = GroupMade(RootPath, << >>)
        /\ setup.events[2] = GroupMade(ApiPath, <<"session", "auth">>)
        /\ Len(Registrations) = setup.i - 1
        /\ \A k \in 1..Len(Registrations) :
            /\ Registrations[k].op = "register"
            /\ Registrations[k].r = k
            /\ setup.routes[k] # {}
            /\ Registrations[k].path =
                  IF "RootEndpoints" \in setup.routes[k] THEN "" ELSE "/api/v1"
        /\ setup.pc = "done" => Len(Registrations) = Len(setup.routes)
        /\ setup.pc = "panicked" => setup.routes[setup.i] = {}

RoutesRegisteredWitness ==
    /\ setup.pc = "done"
    /\ Len(setup.routes) = 3
    /\ setup.routes[1] = {"APIEndpoints"}
    /\ setup.routes[2] = {"RootEndpoints", "APIEndpoints"}
    /\ setup.routes[3] = {"RootEndpoints"}
    /\ Registrations[2].path = ""

====
